---- MODULE Spec2Model ----
\* A model of the OAuth credential store of vault-plugin-secrets-oauthapp:
\* the provider factories of pkg/provider/basic.go and the creds/:name
\* handlers of pkg/backend/path_creds.go, run by concurrent request
\* goroutines against one storage, one store-wide mutex and one provider.
EXTENDS Integers, Sequences, FiniteSets, TLC

VARIABLES
    config,     \* the stored Config Record: <<>> (none) or <<record>>
    store,      \* credential records by storage key: <<>> (absent) or <<token>>
    credMut,    \* b.credMut: the goroutine holding it, or "free"
    pc,         \* per goroutine: the handler position it is at
    op,         \* per goroutine: the request it serves and its locals
    ret,        \* the request that returns in this step, with its response
    now,        \* the wall clock, in ticks
    issued,     \* provider side: number of tokens issued so far
    tokenType   \* provider side: how it spells token_type in its answers

vars == <<config, store, credMut, pc, op, ret, now, issued, tokenType>>

----------------------------------------------------------------------------
\* Bounds of the model.

MaxTok == 2         \* tokens the provider issues in one behaviour
MaxTime == 1        \* ticks of the clock
MaxTTL == 1         \* longest lifetime (expires_in) of an issued token, in ticks

Procs == {"g1", "g2"}       \* request goroutines
Names == {"a", "b"}         \* credential names
ExtRT == MaxTok + 1         \* a refresh token obtained outside the plugin
TokenTypes == {"bearer", "Bearer"}  \* token_type values the provider answers with
StorageOutcomes == {"nil", "storage error"} \* error of one storage call

----------------------------------------------------------------------------
\* Go maps of strings: functions over a finite set of keys.

EmptyMap == [k \in {} |-> ""]

\* opts[k] of a Go map: the zero value "" when the key is missing
Opt(opts, k) == IF k \in DOMAIN opts THEN opts[k] ELSE ""

----------------------------------------------------------------------------
\* Providers (pkg/provider/basic.go).

ProviderNames ==
    {"bitbucket", "github", "gitlab", "google", "microsoft_azure_ad", "slack",
     "custom", "custom_client_credentials"}

\* oauth2.Endpoint values of the well-known services (data of golang.org/x/oauth2)
Endpoint(authURL, tokenURL, authStyle) ==
    [authURL |-> authURL, tokenURL |-> tokenURL, authStyle |-> authStyle]

WellKnownEndpoint(name) ==
    CASE name = "bitbucket" ->
            Endpoint("https://bitbucket.org/site/oauth2/authorize",
                     "https://bitbucket.org/site/oauth2/access_token", "auto")
      [] name = "github" ->
            Endpoint("https://github.com/login/oauth/authorize",
                     "https://github.com/login/oauth/access_token", "auto")
      [] name = "gitlab" ->
            Endpoint("https://gitlab.com/oauth/authorize",
                     "https://gitlab.com/oauth/token", "auto")
      [] name = "google" ->
            Endpoint("https://accounts.google.com/o/oauth2/auth",
                     "https://oauth2.googleapis.com/token", "in_params")
      [] OTHER ->
            Endpoint("https://slack.com/oauth/authorize",
                     "https://slack.com/api/oauth.access", "auto")

AzureADEndpoint(tenant) ==
    Endpoint("https://login.microsoftonline.com/" \o tenant \o "/oauth2/v2.0/authorize",
             "https://login.microsoftonline.com/" \o tenant \o "/oauth2/v2.0/token",
             "auto")

\* type basic struct: a provider instance
Basic(vsn, endpoint, isAuthorizationRequired) ==
    [vsn |-> vsn, endpoint |-> endpoint,
     isAuthorizationRequired |-> isAuthorizationRequired]

NilProvider == Basic(0, Endpoint("", "", "auto"), FALSE)

\* (Provider, error) as returned by a factory
ProviderOk(p) == [err |-> "nil", option |-> "", provider |-> p]
ProviderErr(e) == [err |-> e, option |-> "", provider |-> NilProvider]
OptionError(option) == [err |-> "OptionError", option |-> option, provider |-> NilProvider]

\* switch vsn { case -1, 1: default: return nil, ErrNoProviderWithVersion }
VersionSupported(vsn) == vsn \in {-1, 1}

\* The struct literal of basicFactory and azureADFactory sets vsn and endpoint
\* only: isAuthorizationRequired keeps Go's zero value, false.
basicFactory(endpoint, vsn, opts) ==
    IF ~VersionSupported(vsn) THEN ProviderErr("ErrNoProviderWithVersion")
    ELSE IF DOMAIN opts # {} THEN ProviderErr("ErrNoOptions")
    ELSE ProviderOk(Basic(1, endpoint, FALSE))

\* azureADFactory without its tenant == "" test
azureADFactory_AnyTenant(vsn, opts) ==
    IF ~VersionSupported(vsn) THEN ProviderErr("ErrNoProviderWithVersion")
    ELSE ProviderOk(Basic(1, AzureADEndpoint(Opt(opts, "tenant")), FALSE))

azureADFactory(vsn, opts) ==
    IF ~VersionSupported(vsn) THEN ProviderErr("ErrNoProviderWithVersion")
    ELSE IF Opt(opts, "tenant") = "" THEN OptionError("tenant")
    ELSE ProviderOk(Basic(1, AzureADEndpoint(Opt(opts, "tenant")), FALSE))

\* What oidc.NewProvider can answer for a discovery URL: a failure, or the
\* endpoints of the discovery document.
NoDiscovery == [ok |-> FALSE, authURL |-> "", tokenURL |-> ""]

DiscoveryOutcomes(opts) ==
    IF Opt(opts, "discovery_url") = "" THEN {NoDiscovery}
    ELSE {NoDiscovery,
          [ok |-> TRUE, authURL |-> "https://idp/authorize", tokenURL |-> "https://idp/token"]}

AuthStyleOf(s) ==
    CASE s = "in_header" -> "in_header"
      [] s = "in_params" -> "in_params"
      [] OTHER -> "auto"

customFactory(isAuthorizationRequired, vsn, opts, disc) ==
    LET discovered == Opt(opts, "discovery_url") # ""
        authURL == IF discovered THEN disc.authURL ELSE Opt(opts, "auth_code_url")
        tokenURL == IF discovered THEN disc.tokenURL ELSE Opt(opts, "token_url")
    IN  IF ~VersionSupported(vsn) THEN ProviderErr("ErrNoProviderWithVersion")
        ELSE IF discovered /\ ~disc.ok THEN OptionError("discovery_url")
        ELSE IF isAuthorizationRequired /\ authURL = "" THEN OptionError("auth_code_url")
        ELSE IF tokenURL = "" THEN OptionError("token_url")
        ELSE IF Opt(opts, "auth_style") \notin {"in_header", "in_params", ""}
             THEN OptionError("auth_style")
        ELSE ProviderOk(Basic(1,
                Endpoint(authURL, tokenURL, AuthStyleOf(Opt(opts, "auth_style"))),
                isAuthorizationRequired))

\* GlobalRegistry as populated by init(): the factory registered under a name
Registry(name, vsn, opts, disc) ==
    CASE name \in {"bitbucket", "github", "gitlab", "google", "slack"} ->
            basicFactory(WellKnownEndpoint(name), vsn, opts)
      [] name = "microsoft_azure_ad" -> azureADFactory(vsn, opts)
      [] name = "custom" -> customFactory(TRUE, vsn, opts, disc)
      [] name = "custom_client_credentials" -> customFactory(FALSE, vsn, opts, disc)
      [] OTHER -> ProviderErr("ErrNoSuchProvider")

\* func (b *basic) IsAuthorizationRequired() bool
IsAuthorizationRequired(p) == p.isAuthorizationRequired

\* func (b *basic) Version() int
Version(p) == p.vsn

\* NewTokenConfigBuilder without its IsAuthorizationRequired() test
NewTokenConfigBuilder_Unchecked(p) == [err |-> "nil", tokenURL |-> p.endpoint.tokenURL]

\* NewTokenConfigBuilder with its condition inverted
NewTokenConfigBuilder_Inverted(p) ==
    IF ~IsAuthorizationRequired(p)
    THEN [err |-> "ErrAuthRequired", tokenURL |-> ""]
    ELSE [err |-> "nil", tokenURL |-> p.endpoint.tokenURL]

\* func (b *basic) NewTokenConfigBuilder: the builder, or ErrAuthRequired
NewTokenConfigBuilder(p) ==
    IF IsAuthorizationRequired(p)
    THEN [err |-> "ErrAuthRequired", tokenURL |-> ""]
    ELSE [err |-> "nil", tokenURL |-> p.endpoint.tokenURL]

----------------------------------------------------------------------------
\* Tokens (oauth2.Token) and responses (logical.Response, error).

Token(at, typ, rt, exp) == [at |-> at, typ |-> typ, rt |-> rt, exp |-> exp]

\* oauth2.Token.Valid(): an access token that is not expired; a zero Expiry
\* never expires
Valid(tok, t) == tok.at # 0 /\ (tok.exp = 0 \/ t < tok.exp)

\* oauth2.Token.Type(): the token type in its canonical spelling
TokenType(typ) ==
    CASE typ \in {"bearer", "Bearer", "BEARER"} -> "Bearer"
      [] typ \in {"mac", "Mac", "MAC"} -> "MAC"
      [] typ \in {"basic", "Basic", "BASIC"} -> "Basic"
      [] typ # "" -> typ
      [] OTHER -> "Bearer"

Response(kind, msg, at, typ, exp, hasExp) ==
    [kind |-> kind, msg |-> msg, at |-> at, typ |-> typ, exp |-> exp, hasExp |-> hasExp]

Pending == Response("pending", "", 0, "", 0, FALSE)
\* return nil, nil
NilResponse == Response("nil", "", 0, "", 0, FALSE)
\* return logical.ErrorResponse(msg), nil
ErrorResponse(msg) == Response("errresp", msg, 0, "", 0, FALSE)
\* return nil, err
InternalError(err) == Response("error", err, 0, "", 0, FALSE)

\* the response data with the refresh token where the access token belongs
DataResponse_RefreshToken(tok) ==
    Response("data", "", tok.rt, TokenType(tok.typ),
             IF tok.exp # 0 THEN tok.exp ELSE 0, tok.exp # 0)

\* the response data without its "expire_time"
DataResponse_NoExpiry(tok) == Response("data", "", tok.at, TokenType(tok.typ), 0, FALSE)

\* rd := {"access_token", "type"}, plus "expire_time" when the expiry is set
DataResponse(tok) ==
    Response("data", "", tok.at, TokenType(tok.typ),
             IF tok.exp # 0 THEN tok.exp ELSE 0, tok.exp # 0)

\* credsReadOperation without its !tok.Valid() branch
ReadResponse_ExpiredAsData(tok, err, t) ==
    IF err = "ErrNotConfigured" THEN ErrorResponse("not configured")
    ELSE IF err = "ErrInvalidCredentials" THEN ErrorResponse("invalid client credentials")
    ELSE IF err # "nil" THEN InternalError(err)
    ELSE IF tok = <<>> THEN NilResponse
    ELSE DataResponse(tok[1])

\* credsReadOperation answering a nil token like an expired one
ReadResponse_NilAsExpired(tok, err, t) ==
    IF err = "ErrNotConfigured" THEN ErrorResponse("not configured")
    ELSE IF err = "ErrInvalidCredentials" THEN ErrorResponse("invalid client credentials")
    ELSE IF err # "nil" THEN InternalError(err)
    ELSE IF tok = <<>> \/ ~Valid(tok[1], t) THEN ErrorResponse("token expired")
    ELSE DataResponse(tok[1])

\* The tail of credsReadOperation: what (tok, err) of getRefreshToken becomes
ReadResponse(tok, err, t) ==
    IF err = "ErrNotConfigured" THEN ErrorResponse("not configured")
    ELSE IF err = "ErrInvalidCredentials" THEN ErrorResponse("invalid client credentials")
    ELSE IF err # "nil" THEN InternalError(err)
    ELSE IF tok = <<>> THEN NilResponse
    ELSE IF ~Valid(tok[1], t) THEN ErrorResponse("token expired")
    ELSE DataResponse(tok[1])

----------------------------------------------------------------------------
\* The provider's token endpoint, as the oauth2 client library reports it.

IsRetrieveError(err) == err \in {"invalid_grant", "invalid_client"}

Expiry(ttl, t) == IF ttl = 0 THEN 0 ELSE t + ttl

\* The answers to one token request: grant is "code", "refresh_token" or
\* "client_credentials", rt the refresh token presented. An answer is the error
\* the library returns and the token, if any. A code exchange may or may not
\* yield a refresh token; a refresh may rotate the refresh token, and when the
\* answer carries none the library keeps the one presented. "transport" is
\* any failure that is not the provider's own answer: a failed round trip, a
\* deadline, a cancelled context.
Answer(err, tok) == [err |-> err, tok |-> tok]

Failure(err) == Answer(err, <<>>)

ProviderAnswers(grant, rt) ==
    LET id == issued + 1
        refreshTokens ==
            CASE grant = "code" -> {id, 0}
              [] grant = "refresh_token" -> {id, rt}
              [] OTHER -> {0}
        granted ==
            {Answer("nil", <<Token(id, tokenType, r, Expiry(ttl, now))>>) :
                r \in refreshTokens, ttl \in 0..MaxTTL}
        rejected ==
            IF grant = "client_credentials" THEN {Failure("invalid_client")}
            ELSE {Failure("invalid_grant"), Failure("invalid_client")}
    IN  rejected \cup {Failure("transport")}
        \cup (IF issued < MaxTok THEN granted ELSE {})

----------------------------------------------------------------------------
\* A request in service: its fields and the handler's locals.

Request(kind, name, field, rtIn) ==
    [kind |-> kind, name |-> name, field |-> field, rtIn |-> rtIn,
     tok |-> <<>>, pre |-> <<>>, path |-> "none", calls |-> 0, reply |-> "none",
     resp |-> Pending]

NoRequest == Request("none", "a", "", 0)

\* no provider construction, no token builder
NoBuilt == ProviderErr("none")
NoBuilder == [err |-> "none", tokenURL |-> ""]

\* what the caller of a handler gets back; input are the fields of the
\* request when the handler returns before it has used them (a create:
\* whether code and refresh_token were supplied; a PUT config: provider,
\* version and options), built the provider the registry built for it
Returned(kind, name, calls, reply, resp) ==
    [kind |-> kind, name |-> name, calls |-> calls, reply |-> reply, resp |-> resp,
     input |-> <<>>, built |-> NoBuilt, builder |-> NoBuilder]

NoReturn == Returned("none", "a", 0, "none", Pending)

----------------------------------------------------------------------------
\* The Config Store (the handlers of the config path).

TenantOpts == [k \in {"tenant"} |-> "contoso"]
TokenURLOpts == [k \in {"token_url"} |-> "https://x/token"]
CustomOpts ==
    [k \in {"auth_code_url", "token_url"} |->
        IF k = "auth_code_url" THEN "https://x/authorize" ELSE "https://x/token"]

\* option maps and versions a PUT config may carry
EmptyTenantOpts == [k \in {"tenant"} |-> ""]
AuthURLOpts == [k \in {"auth_code_url"} |-> "https://x/authorize"]
DiscoveryOpts == [k \in {"discovery_url"} |-> "https://idp"]
HeaderStyleOpts ==
    [k \in {"auth_code_url", "token_url", "auth_style"} |->
        IF k = "auth_code_url" THEN "https://x/authorize"
        ELSE IF k = "token_url" THEN "https://x/token" ELSE "in_header"]
UnknownStyleOpts ==
    [k \in {"auth_code_url", "token_url", "auth_style"} |->
        IF k = "auth_code_url" THEN "https://x/authorize"
        ELSE IF k = "token_url" THEN "https://x/token" ELSE "in_body"]

OptionMaps ==
    {EmptyMap, TenantOpts, EmptyTenantOpts, TokenURLOpts, AuthURLOpts, CustomOpts,
     DiscoveryOpts, HeaderStyleOpts, UnknownStyleOpts}

ProviderVersions == {-1, 0, 1, 2}

\* every PUT config over these: <<provider, version, options>>
ProviderInputs == ProviderNames \X ProviderVersions \X OptionMaps

\* the PUT config requests of the model: <<provider, version, options>>
ConfigInputs ==
    {<<"bitbucket", -1, EmptyMap>>, <<"bitbucket", 2, EmptyMap>>,
     <<"microsoft_azure_ad", 1, TenantOpts>>, <<"microsoft_azure_ad", 1, EmptyMap>>,
     <<"custom", -1, CustomOpts>>, <<"custom", 1, TokenURLOpts>>,
     <<"custom_client_credentials", -1, TokenURLOpts>>}

ConfigRecord(provider, version, options) ==
    [provider |-> provider, version |-> version, options |-> options]

\* c.provider(registry): the live provider of the stored configuration
ConfigProvider(cfg, disc) ==
    IF cfg = <<>> THEN ProviderErr("ErrNotConfigured")
    ELSE Registry(cfg[1].provider, cfg[1].version, cfg[1].options, disc)

ConfigDiscovery(cfg) ==
    IF cfg = <<>> THEN {NoDiscovery} ELSE DiscoveryOutcomes(cfg[1].options)

\* the response of PUT config to what the registry answered
ConfigResponse(r) ==
    IF r.err = "nil" THEN NilResponse
    ELSE IF r.err = "OptionError" THEN ErrorResponse(r.option)
    ELSE ErrorResponse(r.err)

\* PUT config: validate through the registry, then replace the whole record;
\* a configuration the registry turns down is not stored
ConfigPut(name, vsn, opts, disc) ==
    LET r == Registry(name, vsn, opts, disc)
    IN  /\ config' = IF r.err = "nil"
                     THEN <<ConfigRecord(name, Version(r.provider), opts)>>
                     ELSE config
        /\ ret' = [Returned("config", "a", 0, "none", ConfigResponse(r))
                      EXCEPT !.input = <<name, vsn, opts>>, !.built = r]
        /\ UNCHANGED <<store, credMut, pc, op, now, issued, tokenType>>

\* c.provider(registry) on the stored configuration, and the token builder of
\* the provider it yields, as an operation of the client-credentials path asks
\* for them
ConfigResolve ==
    /\ config # <<>>
    /\ \E disc \in ConfigDiscovery(config) :
        LET r == ConfigProvider(config, disc)
        IN  ret' = [Returned("provider", "a", 0, "none", Pending)
                      EXCEPT !.input = <<config[1].provider, config[1].version,
                                         config[1].options>>,
                             !.built = r,
                             !.builder = IF r.err = "nil"
                                         THEN NewTokenConfigBuilder(r.provider)
                                         ELSE NoBuilder]
    /\ UNCHANGED <<config, store, credMut, pc, op, now, issued, tokenType>>

\* DELETE config
ConfigDelete ==
    /\ config # <<>>
    /\ config' = <<>>
    /\ ret' = NoReturn
    /\ UNCHANGED <<store, credMut, pc, op, now, issued, tokenType>>

----------------------------------------------------------------------------
\* credKey: the storage key of a credential name. sha1.Sum is computed as
\* FIPS 180 defines it, on 32-bit words held as pairs <<high, low>> of 16-bit
\* halves (a name is at most 55 bytes long here, so it pads to one block).

RECURSIVE And16(_, _, _)
And16(a, b, n) ==
    IF n = 0 THEN 0
    ELSE ((a % 2) * (b % 2)) + 2 * And16(a \div 2, b \div 2, n - 1)

And(x, y) == <<And16(x[1], y[1], 16), And16(x[2], y[2], 16)>>
Not(x) == <<65535 - x[1], 65535 - x[2]>>
Xor(x, y) == <<x[1] + y[1] - 2 * And16(x[1], y[1], 16),
               x[2] + y[2] - 2 * And16(x[2], y[2], 16)>>
Or(x, y) == <<x[1] + y[1] - And16(x[1], y[1], 16),
              x[2] + y[2] - And16(x[2], y[2], 16)>>

RECURSIVE Pow2(_)
Pow2(k) == IF k = 0 THEN 1 ELSE 2 * Pow2(k - 1)

\* rotation to the left by k < 16 bits
Rotate16(x, k) ==
    <<((x[1] * Pow2(k)) % 65536) + (x[2] \div Pow2(16 - k)),
      ((x[2] * Pow2(k)) % 65536) + (x[1] \div Pow2(16 - k))>>

\* rotation to the left by k < 32 bits: 16 bits swap the halves
RotateLeft(x, k) ==
    IF k >= 16 THEN Rotate16(<<x[2], x[1]>>, k - 16) ELSE Rotate16(x, k)

\* addition modulo 2^32
Add(x, y) ==
    <<(x[1] + y[1] + ((x[2] + y[2]) \div 65536)) % 65536, (x[2] + y[2]) % 65536>>

\* the message, the byte 0x80, zeros, and the length in bits as 8 bytes
Padded(msg) ==
    msg \o <<128>> \o [i \in 1..(55 - Len(msg)) |-> 0]
        \o <<0, 0, 0, 0, 0, 0, (8 * Len(msg)) \div 256, (8 * Len(msg)) % 256>>

\* the 16 big-endian words of a block
BlockWords(b) ==
    [j \in 1..16 |-> <<b[4*j - 3] * 256 + b[4*j - 2], b[4*j - 1] * 256 + b[4*j]>>]

\* the message schedule, extended to n words
RECURSIVE Schedule(_, _)
Schedule(w, n) ==
    IF Len(w) >= n THEN w
    ELSE Schedule(Append(w,
            RotateLeft(Xor(Xor(w[Len(w) - 2], w[Len(w) - 7]),
                           Xor(w[Len(w) - 13], w[Len(w) - 15])), 1)), n)

RoundF(t, b, c, d) ==
    IF t < 20 THEN Or(And(b, c), And(Not(b), d))
    ELSE IF t < 40 THEN Xor(Xor(b, c), d)
    ELSE IF t < 60 THEN Or(Or(And(b, c), And(b, d)), And(c, d))
    ELSE Xor(Xor(b, c), d)

\* 5A827999, 6ED9EBA1, 8F1BBCDC, CA62C1D6
RoundK(t) ==
    IF t < 20 THEN <<23170, 31129>>
    ELSE IF t < 40 THEN <<28377, 60321>>
    ELSE IF t < 60 THEN <<36635, 48348>>
    ELSE <<51810, 49622>>

\* 67452301, EFCDAB89, 98BADCFE, 10325476, C3D2E1F0
InitH == <<<<26437, 8961>>, <<61389, 43913>>, <<39098, 56574>>, <<4146, 21622>>,
           <<50130, 57840>>>>

\* the registers <<a, b, c, d, e>> after round t
Round(t, s, w) ==
    <<Add(Add(Add(Add(RotateLeft(s[1], 5), RoundF(t, s[2], s[3], s[4])), s[5]),
              RoundK(t)), w[t + 1]),
      s[1], RotateLeft(s[2], 30), s[3], s[4]>>

\* the registers after each round up to round n, ss those so far
RECURSIVE Rounds(_, _, _)
Rounds(ss, n, w) ==
    IF Len(ss) > n THEN ss
    ELSE Rounds(Append(ss, Round(Len(ss) - 1, ss[Len(ss)], w)), n, w)

\* the registers after the four stages of twenty rounds
Digest(w) == Rounds(Rounds(Rounds(Rounds(<<InitH>>, 20, w), 40, w), 60, w), 80, w)[81]

WordBytes(x) == <<x[1] \div 256, x[1] % 256, x[2] \div 256, x[2] % 256>>

\* the 20 bytes of the hash: each register added to its initial value
HashBytes(s) ==
    WordBytes(Add(InitH[1], s[1])) \o WordBytes(Add(InitH[2], s[2]))
        \o WordBytes(Add(InitH[3], s[3])) \o WordBytes(Add(InitH[4], s[4]))
        \o WordBytes(Add(InitH[5], s[5]))

\* sha1.Sum(msg)
Sum(msg) ==
    HashBytes(Digest(Schedule(Schedule(Schedule(Schedule(
        BlockWords(Padded(msg)), 32), 48), 64), 80)))

\* fmt's %x of a byte slice: two lower-case hexadecimal digits a byte
HexDigit(d) ==
    <<"0", "1", "2", "3", "4", "5", "6", "7", "8", "9", "a", "b", "c", "d", "e", "f">>[d + 1]

RECURSIVE Hex(_)
Hex(bytes) ==
    IF bytes = <<>> THEN ""
    ELSE HexDigit(bytes[1] \div 16) \o HexDigit(bytes[1] % 16) \o Hex(Tail(bytes))

\* credential names the key is computed for: the names the requests use and
\* further names the path pattern admits
KeyNames == Names \cup {"A", "0", "_", "aa", "ab", "ba", "a.b", "a_b", "a-b", "a@b"}

\* []byte(name)
Bytes(name) ==
    CASE name = "a" -> <<97>>
      [] name = "b" -> <<98>>
      [] name = "A" -> <<65>>
      [] name = "0" -> <<48>>
      [] name = "_" -> <<95>>
      [] name = "aa" -> <<97, 97>>
      [] name = "ab" -> <<97, 98>>
      [] name = "ba" -> <<98, 97>>
      [] name = "a.b" -> <<97, 46, 98>>
      [] name = "a_b" -> <<97, 95, 98>>
      [] name = "a-b" -> <<97, 45, 98>>
      [] name = "a@b" -> <<97, 64, 98>>

credsPathPrefix == "creds/"

\* first, second, rest := hash[:2], hash[2:4], hash[4:], formatted %x/%x/%x
\* after the prefix
HashPath(hash) ==
    credsPathPrefix \o Hex(SubSeq(hash, 1, 2)) \o "/" \o Hex(SubSeq(hash, 3, 4))
        \o "/" \o Hex(SubSeq(hash, 5, 20))

\* the key of each name
credKeys == [name \in KeyNames |-> HashPath(Sum(Bytes(name)))]

\* a key that takes nothing from the name
credKey_NameDropped(name) == credKeys[CHOOSE n \in Names : TRUE]

credKey(name) == credKeys[name]

\* the keys of the records the requests are about
StorageKeys == {credKey(name) : name \in Names}

----------------------------------------------------------------------------
\* Request goroutines.

\* the handler of goroutine p returns resp: its locals go, the response is
\* handed to the caller
Returns(p, o, resp) ==
    /\ op' = [op EXCEPT ![p] = NoRequest]
    /\ ret' = Returned(o.kind, o.name, o.calls, o.reply, resp)

\* a Put under the key of another name
StoragePut_WrongKey(name, tok) ==
    store' = [store EXCEPT ![credKey(CHOOSE n \in Names : n # name)] = tok]

\* req.Storage.Put(ctx, entry) of a credential record
StoragePut(name, tok) == store' = [store EXCEPT ![credKey(name)] = tok]

----------------------------------------------------------------------------
\* credsUpdateOperation (PUT creds/:name).

UnsupportedMsg ==
    "this provider does not support creating credentials. Use \"read\" command to retrieve token"

\* credsUpdateOperation without its IsAuthorizationRequired() test
UpdateCheck_AnyFlow(cfg, cerr, r, hasCode, hasRT) ==
    IF cerr # "nil" THEN InternalError(cerr)
    ELSE IF cfg = <<>> THEN ErrorResponse("not configured")
    ELSE IF r.err # "nil" THEN InternalError(r.err)
    ELSE IF hasCode /\ hasRT THEN ErrorResponse("cannot use both code and refresh_token")
    ELSE IF ~hasCode /\ ~hasRT THEN ErrorResponse("missing code or refresh_token")
    ELSE Pending

\* credsUpdateOperation without its c == nil test
UpdateCheck_NoNilCheck(cfg, cerr, r, hasCode, hasRT) ==
    IF cerr # "nil" THEN InternalError(cerr)
    ELSE IF r.err # "nil" THEN InternalError(r.err)
    ELSE IF ~IsAuthorizationRequired(r.provider) THEN ErrorResponse(UnsupportedMsg)
    ELSE IF hasCode /\ hasRT THEN ErrorResponse("cannot use both code and refresh_token")
    ELSE IF ~hasCode /\ ~hasRT THEN ErrorResponse("missing code or refresh_token")
    ELSE Pending

\* Lines 69-117 up to the exchange: the response of an early return, or
\* Pending when the handler goes on to the token exchange.
UpdateCheck(cfg, cerr, r, hasCode, hasRT) ==
    IF cerr # "nil" THEN InternalError(cerr)
    ELSE IF cfg = <<>> THEN ErrorResponse("not configured")
    ELSE IF r.err # "nil" THEN InternalError(r.err)
    ELSE IF ~IsAuthorizationRequired(r.provider) THEN ErrorResponse(UnsupportedMsg)
    ELSE IF hasCode /\ hasRT THEN ErrorResponse("cannot use both code and refresh_token")
    ELSE IF ~hasCode /\ ~hasRT THEN ErrorResponse("missing code or refresh_token")
    ELSE Pending

\* every exchange error taken for a rejection by the provider
UpdateExchangeError_AllRejected(field, err) ==
    ErrorResponse(IF field = "code" THEN "invalid code" ELSE "invalid refresh_token")

\* the exchange error handed on without the errors.As(err, &rErr) test
UpdateExchangeError_Unclassified(field, err) == InternalError(err)

\* the error of Exchange / TokenSource.Token as the handler answers it
UpdateExchangeError(field, err) ==
    IF IsRetrieveError(err)
    THEN ErrorResponse(IF field = "code" THEN "invalid code" ELSE "invalid refresh_token")
    ELSE InternalError(err)

\* credsUpdateOperation taking b.credMut on entry, before the exchange
UpdateBegin_LockFirst(p, name, hasCode, hasRT) ==
    /\ pc[p] = "idle"
    /\ credMut = "free"
    /\ \E cerr \in StorageOutcomes, disc \in ConfigDiscovery(config) :
        LET r == ConfigProvider(config, disc)
            resp == UpdateCheck(config, cerr, r, hasCode, hasRT)
            field == IF hasCode THEN "code" ELSE IF hasRT THEN "refresh_token" ELSE ""
            req == Request("update", name, field, IF hasRT THEN ExtRT ELSE 0)
        IN  IF resp # Pending
            THEN /\ op' = [op EXCEPT ![p] = NoRequest]
                 /\ ret' = [Returned("update", name, 0, "none", resp)
                               EXCEPT !.input = <<hasCode, hasRT>>]
                 /\ pc' = pc
                 /\ credMut' = credMut
            ELSE /\ op' = [op EXCEPT ![p] = [req EXCEPT !.calls = 1]]
                 /\ pc' = [pc EXCEPT ![p] = "upd_exchange"]
                 /\ ret' = NoReturn
                 /\ credMut' = p
    /\ UNCHANGED <<config, store, now, issued, tokenType>>

\* Lines 68-99/107: getConfig, the provider, the field checks, and the token
\* request sent to the provider; b.credMut is not taken yet.
UpdateBegin(p, name, hasCode, hasRT) ==
    /\ pc[p] = "idle"
    /\ \E cerr \in StorageOutcomes, disc \in ConfigDiscovery(config) :
        LET r == ConfigProvider(config, disc)
            resp == UpdateCheck(config, cerr, r, hasCode, hasRT)
            field == IF hasCode THEN "code" ELSE IF hasRT THEN "refresh_token" ELSE ""
            req == Request("update", name, field, IF hasRT THEN ExtRT ELSE 0)
        IN  IF resp # Pending
            THEN /\ op' = [op EXCEPT ![p] = NoRequest]
                 /\ ret' = [Returned("update", name, 0, "none", resp)
                               EXCEPT !.input = <<hasCode, hasRT>>]
                 /\ pc' = pc
            ELSE /\ op' = [op EXCEPT ![p] = [req EXCEPT !.calls = 1]]
                 /\ pc' = [pc EXCEPT ![p] = "upd_exchange"]
                 /\ ret' = NoReturn
    /\ UNCHANGED <<config, store, credMut, now, issued, tokenType>>

\* the provider answers cb.Build().Exchange / TokenSource(...).Token()
UpdateExchangeReply(p) ==
    /\ pc[p] = "upd_exchange"
    /\ \E a \in ProviderAnswers(op[p].field, op[p].rtIn) :
        IF a.err = "nil"
        THEN /\ op' = [op EXCEPT ![p].tok = a.tok, ![p].reply = "ok",
                                 ![p].field = "", ![p].rtIn = 0]
             /\ pc' = [pc EXCEPT ![p] = "upd_wait"]
             /\ issued' = issued + 1
             /\ ret' = NoReturn
        ELSE /\ Returns(p, [op[p] EXCEPT !.reply = a.err],
                        UpdateExchangeError(op[p].field, a.err))
             /\ pc' = [pc EXCEPT ![p] = "idle"]
             /\ issued' = issued
    /\ UNCHANGED <<config, store, credMut, now, tokenType>>

\* b.credMut.Lock()
UpdateLock(p) ==
    /\ pc[p] = "upd_wait"
    /\ credMut = "free"
    /\ credMut' = p
    /\ pc' = [pc EXCEPT ![p] = "upd_put"]
    /\ ret' = NoReturn
    /\ UNCHANGED <<config, store, op, now, issued, tokenType>>

\* StorageEntryJSON, Storage.Put, the deferred Unlock, return
UpdatePut(p) ==
    /\ pc[p] = "upd_put"
    /\ \E serr \in StorageOutcomes :
        IF serr = "nil"
        THEN /\ StoragePut(op[p].name, op[p].tok)
             /\ Returns(p, op[p], NilResponse)
        ELSE /\ store' = store
             /\ Returns(p, op[p], InternalError(serr))
    /\ credMut' = "free"
    /\ pc' = [pc EXCEPT ![p] = "idle"]
    /\ UNCHANGED <<config, now, issued, tokenType>>

----------------------------------------------------------------------------
\* credsDeleteOperation (DELETE creds/:name).

DeleteBegin(p, name) ==
    /\ pc[p] = "idle"
    /\ op' = [op EXCEPT ![p] = Request("delete", name, "", 0)]
    /\ ret' = NoReturn
    /\ pc' = [pc EXCEPT ![p] = "del_wait"]
    /\ UNCHANGED <<config, store, credMut, now, issued, tokenType>>

\* b.credMut.Lock()
DeleteLock(p) ==
    /\ pc[p] = "del_wait"
    /\ credMut = "free"
    /\ credMut' = p
    /\ pc' = [pc EXCEPT ![p] = "del_locked"]
    /\ ret' = NoReturn
    /\ UNCHANGED <<config, store, op, now, issued, tokenType>>

\* a Delete that misses the record's key
StorageDelete_WrongKey(name) == store

\* req.Storage.Delete(ctx, key): the records left
StorageDelete(name) == [store EXCEPT ![credKey(name)] = <<>>]

\* the response of Storage.Delete's outcome
DeleteResponse(serr) == IF serr # "nil" THEN InternalError(serr) ELSE NilResponse

\* Storage.Delete, the deferred Unlock, return
DeleteStorage(p) ==
    /\ pc[p] = "del_locked"
    /\ \E serr \in StorageOutcomes :
        /\ store' = IF serr = "nil" THEN StorageDelete(op[p].name) ELSE store
        /\ Returns(p, op[p], DeleteResponse(serr))
    /\ credMut' = "free"
    /\ pc' = [pc EXCEPT ![p] = "idle"]
    /\ UNCHANGED <<config, now, issued, tokenType>>

----------------------------------------------------------------------------
\* credsReadOperation (GET creds/:name) and getRefreshToken.

Return(tok, err) == [act |-> "return", tok |-> tok, err |-> err]
Refresh == [act |-> "refresh", tok |-> <<>>, err |-> "nil"]
Fetch == [act |-> "fetch", tok |-> <<>>, err |-> "nil"]

\* getRefreshToken up to its network call: what it returns at once, or the
\* call it makes (a refresh with the stored refresh token, or a
\* client-credentials fetch through NewTokenConfigBuilder).
ReadPlan(cfg, cerr, r, serr, entry, t) ==
    IF cerr # "nil" THEN Return(<<>>, cerr)
    ELSE IF cfg = <<>> THEN Return(<<>>, "ErrNotConfigured")
    ELSE IF r.err # "nil" THEN Return(<<>>, r.err)
    ELSE IF serr # "nil" THEN Return(<<>>, serr)
    ELSE IF entry = <<>>
         THEN IF IsAuthorizationRequired(r.provider) THEN Return(<<>>, "nil")
              ELSE IF NewTokenConfigBuilder(r.provider).err # "nil"
                   THEN Return(<<>>, NewTokenConfigBuilder(r.provider).err)
              ELSE Fetch
    ELSE IF Valid(entry[1], t) THEN Return(entry, "nil")
    ELSE IF entry[1].rt # 0 THEN Refresh
    ELSE IF IsAuthorizationRequired(r.provider) THEN Return(entry, "nil")
    ELSE IF NewTokenConfigBuilder(r.provider).err # "nil"
         THEN Return(<<>>, NewTokenConfigBuilder(r.provider).err)
    ELSE Fetch

\* the error getRefreshToken returns for a failed refresh or fetch
RefreshError(err) == IF err = "invalid_client" THEN "ErrInvalidCredentials" ELSE err

\* The lock-free path: a read that has nothing to fetch or refresh returns
\* at once; only a refresh or a fetch goes on to take the lock.
ReadBegin(p, name) ==
    /\ pc[p] = "idle"
    /\ \E cerr \in StorageOutcomes, serr \in StorageOutcomes,
          disc \in ConfigDiscovery(config) :
        LET plan == ReadPlan(config, cerr, ConfigProvider(config, disc), serr,
                             store[credKey(name)], now)
            req == Request("read", name, "", 0)
        IN  IF plan.act = "return"
            THEN /\ Returns(p, req, ReadResponse(plan.tok, plan.err, now))
                 /\ pc' = pc
            ELSE /\ op' = [op EXCEPT ![p] = req]
                 /\ ret' = NoReturn
                 /\ pc' = [pc EXCEPT ![p] = "rd_wait"]
    /\ UNCHANGED <<config, store, credMut, now, issued, tokenType>>

\* b.credMut.Lock()
ReadLock(p) ==
    /\ pc[p] = "rd_wait"
    /\ credMut = "free"
    /\ credMut' = p
    /\ pc' = [pc EXCEPT ![p] = "rd_locked"]
    /\ ret' = NoReturn
    /\ UNCHANGED <<config, store, op, now, issued, tokenType>>

\* Under the lock: read the configuration and the record again, and return
\* or start the refresh / fetch.
ReadLocked(p) ==
    /\ pc[p] = "rd_locked"
    /\ \E cerr \in StorageOutcomes, serr \in StorageOutcomes,
          disc \in ConfigDiscovery(config) :
        LET plan == ReadPlan(config, cerr, ConfigProvider(config, disc), serr,
                             store[credKey(op[p].name)], now)
        IN  IF plan.act = "return"
            THEN /\ Returns(p, op[p], ReadResponse(plan.tok, plan.err, now))
                 /\ pc' = [pc EXCEPT ![p] = "idle"]
                 /\ credMut' = "free"
            ELSE /\ op' = [op EXCEPT ![p].pre = store[credKey(op[p].name)],
                                     ![p].path = plan.act, ![p].calls = 1]
                 /\ ret' = NoReturn
                 /\ pc' = [pc EXCEPT ![p] = "rd_net"]
                 /\ credMut' = credMut
    /\ UNCHANGED <<config, store, now, issued, tokenType>>

\* The provider answers the refresh / fetch: on success the record is
\* overwritten, on failure it is left as it was; then Unlock and return.
ReadReply(p) ==
    /\ pc[p] = "rd_net"
    /\ \E a \in ProviderAnswers(IF op[p].path = "refresh" THEN "refresh_token"
                                ELSE "client_credentials",
                                IF op[p].pre = <<>> THEN 0 ELSE op[p].pre[1].rt),
          serr \in StorageOutcomes :
        IF a.err = "nil"
        THEN /\ issued' = issued + 1
             /\ IF serr = "nil"
                THEN /\ StoragePut(op[p].name, a.tok)
                     /\ Returns(p, [op[p] EXCEPT !.reply = "ok"],
                                ReadResponse(a.tok, "nil", now))
                ELSE /\ store' = store
                     /\ Returns(p, [op[p] EXCEPT !.reply = "ok"],
                                ReadResponse(<<>>, serr, now))
        ELSE /\ UNCHANGED <<store, issued>>
             /\ Returns(p, [op[p] EXCEPT !.reply = a.err],
                        ReadResponse(<<>>, RefreshError(a.err), now))
    /\ credMut' = "free"
    /\ pc' = [pc EXCEPT ![p] = "idle"]
    /\ UNCHANGED <<config, now, tokenType>>

----------------------------------------------------------------------------
\* Time passes.

Tick ==
    /\ now < MaxTime
    /\ now' = now + 1
    /\ ret' = NoReturn
    /\ UNCHANGED <<config, store, credMut, pc, op, issued, tokenType>>

----------------------------------------------------------------------------
\* The specification.

Init ==
    /\ config = <<>>
    /\ store = [k \in StorageKeys |-> <<>>]
    /\ credMut = "free"
    /\ pc = [p \in Procs |-> "idle"]
    /\ op = [p \in Procs |-> NoRequest]
    /\ ret = NoReturn
    /\ now = 0
    /\ issued = 0
    /\ tokenType \in TokenTypes

\* one step of goroutine p
Handler(p) ==
    \/ \E name \in Names, hasCode \in BOOLEAN, hasRT \in BOOLEAN :
            UpdateBegin(p, name, hasCode, hasRT)
    \/ UpdateExchangeReply(p)
    \/ UpdateLock(p)
    \/ UpdatePut(p)
    \/ \E name \in Names : DeleteBegin(p, name)
    \/ DeleteLock(p)
    \/ DeleteStorage(p)
    \/ \E name \in Names : ReadBegin(p, name)
    \/ ReadLock(p)
    \/ ReadLocked(p)
    \/ ReadReply(p)

ConfigWrite ==
    \E in \in ConfigInputs :
        \E disc \in DiscoveryOutcomes(in[3]) : ConfigPut(in[1], in[2], in[3], disc)

\* Spec: the mount from its creation, reconfigured at will, serving one
\* request at a time.
Next ==
    \/ ConfigWrite
    \/ ConfigDelete
    \/ Handler("g1")
    \/ Tick

Spec == Init /\ [][Next]_vars

\* SpecConc: a configured mount serving requests on all goroutines at once.
InitConc ==
    /\ config \in {<<ConfigRecord("custom", 1, CustomOpts)>>,
                   <<ConfigRecord("custom_client_credentials", 1, TokenURLOpts)>>}
    /\ store = [k \in StorageKeys |-> <<>>]
    /\ credMut = "free"
    /\ pc = [p \in Procs |-> "idle"]
    /\ op = [p \in Procs |-> NoRequest]
    /\ ret = NoReturn
    /\ now = 0
    /\ issued = 0
    /\ tokenType = "bearer"

NextConc ==
    \/ \E p \in Procs : Handler(p)
    \/ Tick

SpecConc == InitConc /\ [][NextConc]_vars

\* SpecLive: a mount configured for the authorization-code flow where
\* goroutine g1 serves creates and goroutine g2 any request. The provider may
\* leave g1's token request unanswered for ever (no fairness on
\* UpdateExchangeReply of g1); every other step is taken once it stays
\* possible: a storage call returns, sync.Mutex.Lock returns when the mutex is
\* free, and the provider answers g2.
InitLive ==
    /\ config = <<ConfigRecord("custom", 1, CustomOpts)>>
    /\ store = [k \in StorageKeys |-> <<>>]
    /\ credMut = "free"
    /\ pc = [p \in Procs |-> "idle"]
    /\ op = [p \in Procs |-> NoRequest]
    /\ ret = NoReturn
    /\ now = 0
    /\ issued = 0
    /\ tokenType = "bearer"

Create(p) ==
    \/ \E name \in Names, hasCode \in BOOLEAN, hasRT \in BOOLEAN :
            UpdateBegin(p, name, hasCode, hasRT)
    \/ UpdateExchangeReply(p)
    \/ UpdateLock(p)
    \/ UpdatePut(p)

\* the steps of a request in service that do not wait for its own provider
\* exchange
LocalStep(p) ==
    \/ UpdateLock(p)
    \/ UpdatePut(p)
    \/ DeleteLock(p)
    \/ DeleteStorage(p)
    \/ ReadLock(p)
    \/ ReadLocked(p)

\* the provider answers p
Answered(p) == UpdateExchangeReply(p) \/ ReadReply(p)

NextLive ==
    \/ Create("g1")
    \/ Handler("g2")
    \/ Tick

SpecLive ==
    /\ InitLive
    /\ [][NextLive]_vars
    /\ WF_vars(LocalStep("g1"))
    /\ WF_vars(LocalStep("g2"))
    /\ WF_vars(Answered("g2"))

\* SpecProv: the configuration path alone, over every provider type, version
\* and option map: configurations are written, resolved again and deleted.
ConfigWriteAny ==
    \E in \in ProviderInputs :
        \E disc \in DiscoveryOutcomes(in[3]) : ConfigPut(in[1], in[2], in[3], disc)

NextProv ==
    \/ ConfigWriteAny
    \/ ConfigResolve
    \/ ConfigDelete

SpecProv == Init /\ [][NextProv]_vars

----------------------------------------------------------------------------
\* Vocabulary of the properties.

\* the stored configuration resolves to a provider that requires authorization
AuthRequired ==
    /\ config # <<>>
    /\ ConfigProvider(config, NoDiscovery).err = "nil"
    /\ IsAuthorizationRequired(ConfigProvider(config, NoDiscovery).provider)

\* ... to a provider that does not
TwoLegged ==
    /\ config # <<>>
    /\ ConfigProvider(config, NoDiscovery).err = "nil"
    /\ ~IsAuthorizationRequired(ConfigProvider(config, NoDiscovery).provider)

\* the provider types of the authorization-code flow, and valid options of each
ThreeLeggedTypes ==
    {"bitbucket", "github", "gitlab", "google", "microsoft_azure_ad", "slack", "custom"}

ValidOptions(name) ==
    CASE name = "microsoft_azure_ad" -> TenantOpts
      [] name = "custom" -> CustomOpts
      [] name = "custom_client_credentials" -> TokenURLOpts
      [] OTHER -> EmptyMap

\* goroutine p is between the start of its token exchange or storage mutation
\* and its return
InFlight(p) == pc[p] \in {"upd_exchange", "upd_wait", "upd_put", "del_locked", "rd_net"}

\* this step returns a read that made its decision in this very step (it is
\* not the answer to a refresh or fetch started earlier)
ReadDecision ==
    /\ ret'.kind = "read"
    /\ \A p \in Procs : pc[p] = "rd_net" => pc'[p] = "rd_net"

\* the record of the name the returning request is about, before the step
Record == store[credKey(ret'.name)]

----------------------------------------------------------------------------
\* C1: at any moment at most one exchange, refresh or delete is in flight
\* across the whole store: no two goroutines are at once between the start of
\* their token exchange / storage mutation and their return.
C1_AtMostOneInFlight ==
    \A p \in Procs, q \in Procs : p # q => ~(InFlight(p) /\ InFlight(q))

\* C2: concurrent creates, refreshes and deletes of one name are linearizable
\* in the order the provider answered their exchanges. Access tokens are
\* numbered in the order the provider grants them, so in every such serial
\* order the later-answered exchange writes last: no put replaces a record by
\* the token of an exchange answered earlier than the one the record holds.
C2_LinearizableInAnswerOrder ==
    [][\A n \in Names :
        (store[credKey(n)] # <<>> /\ store'[credKey(n)] # <<>>)
            => store'[credKey(n)][1].at >= store[credKey(n)][1].at]_vars

\* C3: every provider built for a 3-legged type reports
\* IsAuthorizationRequired() = true and only custom_client_credentials reports
\* false; so under a stored 3-legged configuration no create is turned down as
\* unsupported, and a create whose code the provider accepts stores a record.
C3_ThreeLeggedRequiresAuthorization ==
    /\ \A name \in ThreeLeggedTypes :
        LET r == Registry(name, -1, ValidOptions(name), NoDiscovery)
        IN  r.err = "nil" /\ IsAuthorizationRequired(r.provider)
    /\ ~IsAuthorizationRequired(
            Registry("custom_client_credentials", -1, TokenURLOpts, NoDiscovery).provider)
    /\ (config # <<>> /\ config[1].provider \in ThreeLeggedTypes /\ ret.kind = "update")
            => ret.resp # ErrorResponse(UnsupportedMsg)

\* C4: when the provider rejects the code or the refresh token of a create
\* (an OAuth error response), the create answers "invalid code" /
\* "invalid refresh_token" as a user-facing error response and the store is
\* left exactly as it was.
C4_RejectionIsDiagnosedStoreUntouched ==
    [][\A p \in Procs :
        (pc[p] = "upd_exchange" /\ pc'[p] = "idle" /\ IsRetrieveError(ret'.reply))
            => /\ ret'.resp = ErrorResponse(IF op[p].field = "code" THEN "invalid code"
                                            ELSE "invalid refresh_token")
               /\ store' = store]_vars

\* a create was rejected by the provider while a record was stored under its name
C4_Witness ==
    /\ ret.kind = "update"
    /\ ret.reply = "invalid_grant"
    /\ ret.resp = ErrorResponse("invalid code")
    /\ store[credKey(ret.name)] # <<>>

\* the read at hand finds an expired record without refresh token under a
\* provider that requires authorization, and storage answers
ExpiredNoRefresh ==
    /\ ReadDecision
    /\ AuthRequired
    /\ Record # <<>>
    /\ ~Valid(Record[1], now)
    /\ Record[1].rt = 0
    /\ ret'.resp.kind # "error"

\* C5 (as claimed): such a read hands the caller the expired token itself, as a
\* result, and leaves the record alone.
C5_ExpiredTokenIsReturned ==
    [][ExpiredNoRefresh =>
        /\ ret'.resp.kind = "data"
        /\ ret'.resp.at = Record[1].at
        /\ store' = store]_vars

\* C5 (amended): such a read answers the error response "token expired", which
\* carries no token, makes no network call and leaves the record alone.
C5_ExpiredIsAnErrorResponse ==
    [][ExpiredNoRefresh =>
        /\ ret'.resp = ErrorResponse("token expired")
        /\ ret'.calls = 0
        /\ store' = store]_vars

C5_Witness ==
    /\ ret.kind = "read"
    /\ ret.resp = ErrorResponse("token expired")
    /\ AuthRequired
    /\ store[credKey(ret.name)] # <<>>
    /\ store[credKey(ret.name)][1].rt = 0
    /\ ~Valid(store[credKey(ret.name)][1], now)

\* goroutine p gets the answer to the refresh it started for an expired
\* record with a refresh token
RefreshAnswered(p) ==
    /\ pc[p] = "rd_net"
    /\ op[p].path = "refresh"
    /\ pc'[p] = "idle"

\* C6 (as claimed): a read of an expired record with a refresh token makes
\* exactly one refresh call; if it succeeds the record is overwritten and its
\* expiry is strictly greater than before; if it fails the record is what it
\* was before the read.
C6_RefreshRaisesExpiry ==
    [][\A p \in Procs : RefreshAnswered(p) =>
        /\ ret'.calls = 1
        /\ (ret'.reply = "ok" /\ ret'.resp.kind # "error") =>
                /\ store'[credKey(op[p].name)] # <<>>
                /\ store'[credKey(op[p].name)][1].at # op[p].pre[1].at
                /\ store'[credKey(op[p].name)][1].exp > op[p].pre[1].exp
        /\ ret'.reply # "ok" =>
                /\ store' = store
                /\ store[credKey(op[p].name)] = op[p].pre]_vars

\* C6 (amended): ... if it succeeds the record is overwritten and its expiry is
\* strictly greater than before or zero (a token that never expires); ...
C6_RefreshRaisesOrClearsExpiry ==
    [][\A p \in Procs : RefreshAnswered(p) =>
        /\ ret'.calls = 1
        /\ ~Valid(op[p].pre[1], now) /\ op[p].pre[1].rt # 0
        /\ (ret'.reply = "ok" /\ ret'.resp.kind # "error") =>
                /\ store'[credKey(op[p].name)] # <<>>
                /\ store'[credKey(op[p].name)][1].at # op[p].pre[1].at
                /\ \/ store'[credKey(op[p].name)][1].exp > op[p].pre[1].exp
                   \/ store'[credKey(op[p].name)][1].exp = 0
        /\ ret'.reply # "ok" =>
                /\ store' = store
                /\ store[credKey(op[p].name)] = op[p].pre]_vars

\* a read has refreshed an expired record
C6_Witness ==
    /\ ret.kind = "read"
    /\ ret.calls = 1
    /\ ret.reply = "ok"
    /\ ret.resp.kind = "data"
    /\ AuthRequired
    /\ store[credKey(ret.name)] # <<>>
    /\ store[credKey(ret.name)][1].rt # 0

\* C7: under a provider that does not require authorization, a read of a name
\* without record makes exactly one token fetch, stores the fetched token and
\* returns its access token; a read that finds a still-valid record makes no
\* call and returns that record's token.
C7_FetchOnceThenServeFromStore ==
    [][/\ \A p \in Procs :
            (pc[p] = "rd_net" /\ op[p].path = "fetch" /\ pc'[p] = "idle") =>
                /\ ret'.calls = 1
                /\ (ret'.reply = "ok" /\ ret'.resp.kind # "error") =>
                        /\ store'[credKey(op[p].name)] # <<>>
                        /\ ret'.resp.kind = "data"
                        /\ ret'.resp.at = store'[credKey(op[p].name)][1].at
       /\ (ReadDecision /\ TwoLegged /\ Record = <<>>) =>
                ret'.resp = InternalError("storage error")
       /\ (ReadDecision /\ TwoLegged /\ Record # <<>> /\ ret'.resp.kind # "error") =>
                Valid(Record[1], now)
                    /\ ret'.calls = 0
                    /\ ret'.resp.kind = "data"
                    /\ ret'.resp.at = Record[1].at
                    /\ store' = store]_vars

\* a client-credentials read has fetched and stored a token
C7_Witness ==
    /\ ret.kind = "read"
    /\ ret.calls = 1
    /\ ret.reply = "ok"
    /\ ret.resp.kind = "data"
    /\ config # <<>>
    /\ config[1].provider = "custom_client_credentials"
    /\ store[credKey(ret.name)] # <<>>
    /\ store[credKey(ret.name)][1].at = ret.resp.at

ReadOfValidRecord ==
    /\ ReadDecision
    /\ config # <<>>
    /\ Record # <<>>
    /\ Valid(Record[1], now)
    /\ ret'.resp.kind # "error"

\* C9 (as claimed): such a read returns exactly the stored access token, token
\* type and expiry, makes no network call and leaves the record alone.
C9_ReadReturnsStoredFields ==
    [][ReadOfValidRecord =>
        /\ ret'.resp = Response("data", "", Record[1].at, Record[1].typ,
                                Record[1].exp, Record[1].exp # 0)
        /\ ret'.calls = 0
        /\ store' = store]_vars

\* C9 (amended): such a read returns the stored access token and expiry and the stored token type
\* in the canonical spelling of Token.Type(); no network call, record unchanged.
C9_ReadReturnsCanonicalType ==
    [][ReadOfValidRecord =>
        /\ ret'.resp = Response("data", "", Record[1].at, TokenType(Record[1].typ),
                                Record[1].exp, Record[1].exp # 0)
        /\ ret'.calls = 0
        /\ store' = store]_vars

\* a read has returned a record created under the 3-legged provider, its
\* token type respelled
C9_Witness ==
    /\ ret.kind = "read"
    /\ ret.calls = 0
    /\ ret.resp.kind = "data"
    /\ AuthRequired
    /\ store[credKey(ret.name)] # <<>>
    /\ store[credKey(ret.name)][1].at = ret.resp.at
    /\ store[credKey(ret.name)][1].typ # ret.resp.typ

\* C10: a delete needs no record, no configuration and no particular
\* provider: whatever the state, the only error it returns is the storage
\* collaborator's own; otherwise it returns success, no record is left under
\* the name, the other records are untouched, and a delete of an absent name
\* leaves the store as it was.
C10_DeleteUnconditionalIdempotent ==
    [][\A p \in Procs : (pc[p] = "del_locked" /\ pc'[p] = "idle") =>
        /\ ret'.resp \in {NilResponse, InternalError("storage error")}
        /\ ret'.resp = NilResponse =>
                /\ store'[credKey(op[p].name)] = <<>>
                /\ \A n \in Names \ {op[p].name} : store'[credKey(n)] = store[credKey(n)]
                /\ store[credKey(op[p].name)] = <<>> => store' = store
        /\ ret'.resp # NilResponse => store' = store]_vars

\* a delete of an absent name has succeeded on a mount without configuration
\* that still holds another record
C10_Witness ==
    /\ ret.kind = "delete"
    /\ ret.resp = NilResponse
    /\ config = <<>>
    /\ store[credKey(ret.name)] = <<>>
    /\ \E n \in Names : store[credKey(n)] # <<>>

----------------------------------------------------------------------------
\* C11: no response of a credential read, create or delete carries the stored
\* refresh token: creates and deletes answer without data, and the data of a
\* read is the access token, the type and (for a non-zero expiry) the expiry
\* of the record, so it is the same whatever refresh token the record holds.
C11_ResponsesHideRefreshToken ==
    [][/\ ret'.kind \in {"update", "delete"} => ret'.resp.kind \in {"nil", "errresp", "error"}
       /\ (ret'.kind = "read" /\ ret'.resp.kind = "data") =>
            /\ store'[credKey(ret'.name)] # <<>>
            /\ \A r \in 0..ExtRT :
                 ReadResponse(<<[store'[credKey(ret'.name)][1] EXCEPT !.rt = r]>>, "nil", now)
                    = ret'.resp
            /\ ret'.resp.hasExp = (store'[credKey(ret'.name)][1].exp # 0)]_vars

\* a read has returned the data of a record that holds a refresh token
C11_Witness ==
    /\ ret.kind = "read"
    /\ ret.resp.kind = "data"
    /\ store[credKey(ret.name)] # <<>>
    /\ store[credKey(ret.name)][1].rt # 0

----------------------------------------------------------------------------
\* C12: a create that supplies both code and refresh_token is answered at
\* once with the error response "cannot use both code and refresh_token", a
\* create that supplies neither with "missing code or refresh_token"; neither
\* calls the provider nor changes the store. (Stated for a mount configured
\* with a provider type of the authorization-code flow whose collaborators
\* answer: C14 and C15 state the other cases.)
C12_BothOrNeitherIsUserError ==
    [][(/\ ret'.kind = "update"
        /\ ret'.input # <<>>
        /\ ret'.input[1] = ret'.input[2]
        /\ config # <<>>
        /\ config[1].provider \in ThreeLeggedTypes
        /\ ret'.resp.kind # "error")
        => /\ ret'.resp = ErrorResponse(IF ret'.input[1]
                                        THEN "cannot use both code and refresh_token"
                                        ELSE "missing code or refresh_token")
           /\ ret'.calls = 0
           /\ store' = store]_vars

----------------------------------------------------------------------------
\* C13: when the token exchange of a create fails otherwise than by the
\* provider's rejection, or when the storage put fails, the create returns
\* that failure as an internal error after its one call to the provider, and
\* the store is left as it was.
C13_FailuresAreInternalErrors ==
    [][\A p \in Procs :
        /\ (pc[p] = "upd_exchange" /\ pc'[p] = "idle" /\ ~IsRetrieveError(ret'.reply))
                => /\ ret'.resp = InternalError(ret'.reply)
                   /\ ret'.calls = 1
                   /\ store' = store
        /\ (pc[p] = "upd_put" /\ pc'[p] = "idle" /\ ret'.resp # NilResponse)
                => /\ ret'.resp = InternalError("storage error")
                   /\ ret'.calls = 1
                   /\ store' = store]_vars

\* a create has failed on the transport while a record was stored under its name
C13_Witness ==
    /\ ret.kind = "update"
    /\ ret.reply = "transport"
    /\ ret.resp = InternalError("transport")
    /\ store[credKey(ret.name)] # <<>>

----------------------------------------------------------------------------
\* goroutine p sends a request to the provider in this step
CallsProvider(p) ==
    \/ pc[p] # "upd_exchange" /\ pc'[p] = "upd_exchange"
    \/ pc[p] # "rd_net" /\ pc'[p] = "rd_net"

\* this step returns a create that was issued in this very step
CreateDecision == ret'.kind = "update" /\ ret'.input # <<>>

\* C14: while the configured provider does not require authorization, every
\* create is answered with a user-facing error response (the collaborators
\* answering), whatever fields it carries; it makes no call to the provider
\* and leaves the store as it was.
C14_NoCreateUnderTwoLegged ==
    [][TwoLegged =>
        /\ \A p \in Procs : pc[p] = "idle" => pc'[p] # "upd_exchange"
        /\ (CreateDecision /\ ret'.resp # InternalError("storage error")) =>
                /\ ret'.resp = ErrorResponse(UnsupportedMsg)
                /\ ret'.calls = 0
                /\ store' = store]_vars

\* a create carrying a code was turned down under custom_client_credentials
C14_Witness ==
    /\ ret.kind = "update"
    /\ ret.input = <<TRUE, FALSE>>
    /\ ret.resp = ErrorResponse(UnsupportedMsg)
    /\ config # <<>>
    /\ config[1].provider = "custom_client_credentials"

\* C15: deleting the configuration leaves every credential record as it is;
\* while no configuration is stored, no request is sent to the provider, a
\* create is answered "not configured" and leaves the store as it was, and a
\* read is answered "not configured" as an error response, not as an
\* internal error (the storage collaborator answering).
C15_ConfigDeleteBlocksWithoutCascade ==
    [][/\ (config # <<>> /\ config' = <<>>) => store' = store
       /\ config = <<>> =>
            /\ \A p \in Procs : ~CallsProvider(p)
            /\ (CreateDecision /\ ret'.resp # InternalError("storage error")) =>
                    /\ ret'.resp = ErrorResponse("not configured")
                    /\ ret'.calls = 0
                    /\ store' = store
            /\ (ReadDecision /\ ret'.resp # InternalError("storage error")) =>
                    /\ ret'.resp = ErrorResponse("not configured")
                    /\ ret'.calls = 0
                    /\ store' = store]_vars

\* a read of a stored record was answered "not configured" after the
\* configuration was deleted
C15_Witness ==
    /\ ret.kind = "read"
    /\ ret.resp = ErrorResponse("not configured")
    /\ config = <<>>
    /\ store[credKey(ret.name)] # <<>>

----------------------------------------------------------------------------
\* C16: a provider construction (of a supported version) that lacks a required
\* option, or has it empty, yields the option error naming that option and no
\* provider: tenant for microsoft_azure_ad; for custom, without discovery_url,
\* auth_code_url and then token_url; for custom_client_credentials, without
\* discovery_url, token_url only, auth_code_url not being needed. A PUT config
\* that the registry turns down leaves the stored configuration as it was.
C16_MissingOptionIsNamed ==
    [][ret'.kind = "config" =>
        LET name == ret'.input[1]
            vsn == ret'.input[2]
            opts == ret'.input[3]
            r == ret'.built
            custom == name \in {"custom", "custom_client_credentials"}
                        /\ Opt(opts, "discovery_url") = ""
        IN  /\ (VersionSupported(vsn) /\ name = "microsoft_azure_ad"
                    /\ Opt(opts, "tenant") = "")
                    => r = OptionError("tenant")
            /\ (VersionSupported(vsn) /\ custom /\ name = "custom"
                    /\ Opt(opts, "auth_code_url") = "")
                    => r = OptionError("auth_code_url")
            /\ (VersionSupported(vsn) /\ custom /\ Opt(opts, "token_url") = ""
                    /\ (name = "custom" => Opt(opts, "auth_code_url") # ""))
                    => r = OptionError("token_url")
            /\ (VersionSupported(vsn) /\ custom /\ name = "custom_client_credentials"
                    /\ Opt(opts, "token_url") # "" /\ Opt(opts, "auth_code_url") = ""
                    /\ Opt(opts, "auth_style") = "")
                    => r.err = "nil"
            /\ r.err = "OptionError" => ret'.resp = ErrorResponse(r.option)
            /\ r.err # "nil" => config' = config]_vars

\* a PUT config for microsoft_azure_ad without tenant was turned down with
\* the option error for tenant, another configuration staying stored
C16_Witness ==
    /\ ret.kind = "config"
    /\ ret.input[1] = "microsoft_azure_ad"
    /\ ret.built = OptionError("tenant")
    /\ ret.resp = ErrorResponse("tenant")
    /\ config # <<>>
    /\ config[1].provider = "custom_client_credentials"

----------------------------------------------------------------------------
\* C17: for every provider type, an unsupported version is answered with the
\* "no such provider version" error and version -1 builds a provider of the
\* current version, 1; and resolving the stored configuration again, with the
\* version the built provider reported and the same options, yields the very
\* provider the PUT config built (endpoint, auth style and
\* authorization-required flag).
C17_VersionResolutionReconstructs ==
    [][/\ ret'.kind = "config" =>
            /\ ~VersionSupported(ret'.input[2])
                    => ret'.built = ProviderErr("ErrNoProviderWithVersion")
            /\ (ret'.input[2] = -1 /\ ret'.built.err = "nil")
                    => Version(ret'.built.provider) = 1
       /\ (ret.kind = "config" /\ ret.built.err = "nil" /\ ret'.kind = "provider")
            => /\ ret'.input = <<ret.input[1], Version(ret.built.provider), ret.input[3]>>
               /\ ret'.built = ret.built]_vars

----------------------------------------------------------------------------
\* C18: for every provider instance, NewTokenConfigBuilder returns
\* ErrAuthRequired and no builder when the instance requires authorization,
\* and a client-credentials builder for its token URL, with no error, when it
\* does not.
C18_TokenBuilderOnlyWithoutAuthorization ==
    (ret.kind = "provider" /\ ret.built.err = "nil") =>
        IF ret.built.provider.isAuthorizationRequired
        THEN ret.builder = [err |-> "ErrAuthRequired", tokenURL |-> ""]
        ELSE ret.builder = [err |-> "nil",
                            tokenURL |-> ret.built.provider.endpoint.tokenURL]

\* the token builder was refused to a provider that requires authorization
C18_Witness ==
    /\ ret.kind = "provider"
    /\ ret.built.err = "nil"
    /\ ret.built.provider.isAuthorizationRequired
    /\ ret.builder.err = "ErrAuthRequired"

----------------------------------------------------------------------------
\* C19: while the token exchange of a create (g1) is outstanding and never
\* answered, any other request in service (g2: a create, a read or a delete)
\* gets the lock and returns; and a create whose exchange fails without an
\* answer of the provider, as a cancelled one does, leaves the store as it
\* was.
C19_HungExchangeDoesNotBlock ==
    /\ (pc["g1"] = "upd_exchange" /\ pc["g2"] # "idle")
            ~> (pc["g2"] = "idle" \/ pc["g1"] # "upd_exchange")
    /\ [][\A p \in Procs :
            (pc[p] = "upd_exchange" /\ pc'[p] = "idle" /\ ret'.reply = "transport")
                => store' = store]_vars

\* g2's create has stored its record and returned while g1's token exchange
\* is outstanding
C19_Witness ==
    /\ pc["g1"] = "upd_exchange"
    /\ pc["g2"] = "idle"
    /\ ret.kind = "update"
    /\ ret.reply = "ok"
    /\ ret.resp = NilResponse
    /\ store[credKey(ret.name)] # <<>>

----------------------------------------------------------------------------
\* C20: a create and a delete hold the store-wide lock from before their
\* first access to storage (the create's is getConfig, on entry) and have
\* released it when they return, on every return path; and no record is put
\* or deleted but by a goroutine that holds the lock.
C20_LockBeforeStorage ==
    [][/\ \A p \in Procs :
            /\ (pc[p] = "idle" /\ pc'[p] = "upd_exchange") => credMut = p
            /\ (pc[p] \in {"upd_put", "del_locked"} /\ pc'[p] = "idle") => credMut = p
            /\ pc'[p] = "idle" => credMut' # p
       /\ store' # store => \E p \in Procs : credMut = p /\ pc'[p] # pc[p]]_vars

----------------------------------------------------------------------------
\* the tokens the provider may grant in answer to the token request goroutine
\* p has in flight
GrantedTo(p) ==
    LET grant == IF pc[p] = "upd_exchange" THEN op[p].field
                 ELSE IF op[p].path = "refresh" THEN "refresh_token"
                 ELSE "client_credentials"
        rt == IF pc[p] = "upd_exchange" THEN op[p].rtIn
              ELSE IF op[p].pre = <<>> THEN 0 ELSE op[p].pre[1].rt
    IN  {a.tok : a \in {b \in ProviderAnswers(grant, rt) : b.err = "nil"}}

\* a create keeps the token the provider granted it, whole, until it returns
HoldsGrantedToken(p) ==
    /\ (pc[p] = "upd_exchange" /\ pc'[p] = "upd_wait") =>
            op'[p].tok \in GrantedTo(p) /\ op'[p].name = op[p].name
    /\ (pc[p] \in {"upd_wait", "upd_put"} /\ pc'[p] \in {"upd_wait", "upd_put"}) =>
            op'[p].tok = op[p].tok /\ op'[p].name = op[p].name

\* the record of name n is written in this step: all of it is the token one
\* provider answer granted to a request for n
PutOfOneGrant(n) ==
    (store'[credKey(n)] # store[credKey(n)] /\ store'[credKey(n)] # <<>>) =>
        \E p \in Procs :
            /\ op[p].name = n
            /\ \/ pc[p] = "upd_put" /\ store'[credKey(n)] = op[p].tok
               \/ pc[p] = "rd_net" /\ store'[credKey(n)] \in GrantedTo(p)

\* this step returns a create of name n that succeeded
CreateSucceeds(n) ==
    /\ ret'.kind = "update"
    /\ ret'.name = n
    /\ ret'.resp = NilResponse

\* the mount is configured with a provider type of the authorization-code flow
ThreeLegged == config # <<>> /\ config[1].provider \in ThreeLeggedTypes

\* C21: every stored record is the complete token (access token, token type,
\* refresh token, expiry) of one successful exchange, refresh or fetch for its
\* name, written by one put; under a 3-legged provider a record comes to
\* exist for a name only by a create for that name that succeeds (so it exists
\* only if one succeeded after the last delete); and a successful create on an
\* existing name leaves as the record its own token and nothing of the old one.
C21_RecordIsOneWholeToken ==
    [][/\ \A p \in Procs : HoldsGrantedToken(p)
       /\ \A n \in Names :
            /\ PutOfOneGrant(n)
            /\ (ThreeLegged /\ store[credKey(n)] = <<>> /\ store'[credKey(n)] # <<>>)
                    => CreateSucceeds(n)
            /\ CreateSucceeds(n) =>
                    \E p \in Procs : pc[p] = "upd_put" /\ store'[credKey(n)] = op[p].tok]_vars

----------------------------------------------------------------------------
\* this step is taken by a request on name n: a goroutine begins it, carries
\* it on, or returns it
StepOn(n) ==
    \/ \E p \in Procs : pc[p] # "idle" /\ pc'[p] # pc[p] /\ op[p].name = n
    \/ \E p \in Procs : pc[p] = "idle" /\ pc'[p] # "idle" /\ op'[p].name = n
    \/ pc' = pc /\ ret'.kind \in {"update", "read", "delete"} /\ ret'.name = n

\* distinct names have distinct keys, every key is creds/ followed by 4, 4
\* and 32 hexadecimal digits with two separators, and the keys of a and b are
\* the paths of their SHA-1 digests
KeysAreDistinctPaths ==
    /\ \A n1 \in KeyNames, n2 \in KeyNames : credKey(n1) = credKey(n2) => n1 = n2
    /\ \A n \in KeyNames : Len(credKey(n)) = 6 + 4 + 1 + 4 + 1 + 32
    /\ credKey("a") = "creds/86f7/e437/faa5a7fce15d1ddcb9eaeaea377667b8"
    /\ credKey("b") = "creds/e9d7/1f5e/e7c92d6dc9e92ffdad17b8bd49418f98"

\* C22: credentials are independent. The storage key is a function of the
\* name alone: a name has one key, of the form creds/<2 bytes>/<2 bytes>/<rest>,
\* so the record a create puts is the one found under the name's key, and
\* distinct names have distinct keys; and a step of a create, read or delete on
\* a name leaves the record of every other name as it was, whatever the other
\* goroutine does in between.
C22_CredentialsAreIndependent ==
    [][/\ KeysAreDistinctPaths
       /\ \A n1 \in Names :
            /\ StepOn(n1) =>
                    \A n2 \in Names \ {n1} : store'[credKey(n2)] = store[credKey(n2)]
            /\ CreateSucceeds(n1) => store'[credKey(n1)] # <<>>]_vars

\* a create has stored its record while another name holds another record
C22_Witness ==
    /\ ret.kind = "update"
    /\ ret.resp = NilResponse
    /\ \A n \in Names : store[credKey(n)] # <<>>
    /\ \E n \in Names \ {ret.name} : store[credKey(n)] # store[credKey(ret.name)]

====
